---- MODULE Spec2Model ----
(***************************************************************************)
(* tools/build-templated-pages/src/examples.rs: the example catalog of the *)
(* manifest.  parse_examples walks the [[example]] declarations of         *)
(* Cargo.toml and joins them with package.metadata.example;                *)
(* parse_categories reads package.metadata.example_category; check groups  *)
(* the examples by category, sorts every group and renders                 *)
(* examples/README.md from a template.                                     *)
(*                                                                         *)
(* Option<T> is a sequence of length 0 (None) or 1 (Some).  Strings that   *)
(* the program compares (display names, category keys) are sequences of    *)
(* byte values, so that str's ordering is computed, byte by byte.          *)
(***************************************************************************)
EXTENDS Integers, Sequences, FiniteSets, TLC

\* Largest number of [[example]] declarations in a manifest.
MaxDecls == 2

None == << >>
Some(x) == <<x>>
IsSome(o) == Len(o) = 1
Unwrap(o) == o[1]

Range(s) == {s[i] : i \in 1..Len(s)}

----------------------------------------------------------------------------
(* Strings as bytes *)

Alpha == <<65, 108, 112, 104, 97>>
Zeta  == <<90, 101, 116, 97>>
Al    == <<65, 108>>
basic == <<98, 97, 115, 105, 99>>
tools == <<116, 111, 111, 108, 115>>
extra == <<101, 120, 116, 114, 97>>

\* str::cmp: lexicographic on the bytes, a proper prefix is smaller.
RECURSIVE StrCmp(_, _)
StrCmp(a, b) ==
    IF a = << >> /\ b = << >> THEN "Equal"
    ELSE IF a = << >> THEN "Less"
    ELSE IF b = << >> THEN "Greater"
    ELSE IF Head(a) < Head(b) THEN "Less"
    ELSE IF Head(a) > Head(b) THEN "Greater"
    ELSE StrCmp(Tail(a), Tail(b))

----------------------------------------------------------------------------
(* The manifest *)

TechnicalName(i) == "ex" \o ToString(i)
PathOf(i) == "examples/ex" \o ToString(i) \o ".rs"
TechnicalNames == {TechnicalName(i) : i \in 1..MaxDecls}

\* The entries of package.metadata.example: every field is optional in the
\* document; None also stands for a value of the wrong type.
Metadata(n, d, c, w, h) ==
    [name |-> n, description |-> d, category |-> c, wasm |-> w, hidden |-> h]

MetadataEntries ==
    { Metadata(Some(Zeta),  Some("zeta example"),  Some(basic), Some(FALSE), None),
      Metadata(Some(Alpha), Some("alpha example"), Some(basic), Some(TRUE),  Some(FALSE)),
      Metadata(Some(Al),    Some("al example"),    Some(extra), Some(FALSE), None),
      Metadata(Some(Alpha), Some("hidden one"),    Some(basic), Some(TRUE),  Some(TRUE)),
      Metadata(None,        None,                  None,        None,        Some(TRUE)),
      Metadata(Some(Zeta),  Some("no wasm key"),   Some(basic), None,        None) }

\* One [[example]] table: name and path are optional in the document,
\* doc-scrape-examples is a key with some boolean value or no key at all.
Declaration(n, p, m) == [name |-> n, path |-> p, marker |-> m]

\* The declaration at position i together with the metadata entry the table
\* has under its name (None: no entry).
DeclarationsAt(i) ==
    { [val |-> Declaration(Some(TechnicalName(i)), Some(PathOf(i)), m), metadata |-> e] :
        m \in {None, Some(TRUE), Some(FALSE)}, e \in {None} \cup {Some(x) : x \in MetadataEntries} }
    \cup
    { [val |-> Declaration(Some(TechnicalName(i)), None, Some(TRUE)), metadata |-> e] :
        e \in {None} \cup {Some(x) : x \in {y \in MetadataEntries : y.name # Some(Zeta)}} }
    \cup
    { [val |-> Declaration(None, Some(PathOf(i)), Some(TRUE)), metadata |-> None] }

\* The declaration lists of length n: position i holds a declaration of
\* DeclarationsAt(i), so technical names are unique in a manifest.
RECURSIVE DeclarationLists(_)
DeclarationLists(n) ==
    IF n = 0 THEN { << >> }
    ELSE { Append(ds, d) : ds \in DeclarationLists(n - 1), d \in DeclarationsAt(n) }

\* Cargo.toml as parse_examples reads it: manifest["example"] and
\* package.metadata.example.  The file is one that parses and holds both
\* tables (the unwraps of lines 40-52 pass).
ManifestOf(ds) ==
    [ example  |-> [i \in 1..Len(ds) |-> ds[i].val],
      metadata |-> [t \in TechnicalNames |->
                      IF \E i \in 1..Len(ds) : ds[i].val.name = Some(t)
                      THEN ds[CHOOSE i \in 1..Len(ds) : ds[i].val.name = Some(t)].metadata
                      ELSE None] ]

Manifests == { ManifestOf(ds) : ds \in UNION {DeclarationLists(n) : n \in 0..MaxDecls} }

\* package.metadata.example_category as parse_categories reads it: an array
\* of tables whose name and description are optional in the document.
CategoryEntry(n, d) == [name |-> n, description |-> d]

CategoryTables ==
    { << >>,
      << CategoryEntry(Some(basic), Some("Basic examples.")) >>,
      << CategoryEntry(Some(basic), Some("Basic examples.")),
         CategoryEntry(Some(tools), Some("Tools.")) >>,
      << CategoryEntry(Some(basic), Some("first")),
         CategoryEntry(Some(basic), Some("second")) >>,
      << CategoryEntry(Some(extra), None) >> }

\* Command: the bit flags given to check.
Commands == SUBSET {"CHECK_MISSING", "UPDATE"}
contains(what, flag) == flag \in what

----------------------------------------------------------------------------
(* parse_examples *)

NoPanic == [message |-> "none", example |-> None]
Panic(m, t) == [message |-> m, example |-> t]

\* metadatas.get(&technical_name)
get(metadatas, technical_name) == metadatas[technical_name]

\* Faulty variant: the check without its panic_on_missing guard.
MissingMetadata_Unconditional(panic_on_missing, metadata) ==
    ~IsSome(metadata)

\* panic_on_missing && metadatas.get(&technical_name).is_none()
MissingMetadata(panic_on_missing, metadata) ==
    panic_on_missing /\ ~IsSome(metadata)

\* Faulty variant: the key must be there and true.
MissingDocScrape_ByValue(panic_on_missing, val) ==
    panic_on_missing /\ val.marker # Some(TRUE)

\* panic_on_missing && val.get("doc-scrape-examples").is_none()
MissingDocScrape(panic_on_missing, val) ==
    panic_on_missing /\ ~IsSome(val.marker)

\* Faulty variant: hidden is not looked at.
IsHidden_Ignored(metadata) == FALSE

\* metadata.and_then(get "hidden").and_then(as_bool).unwrap_or(false)
IsHidden(metadata) ==
    IF IsSome(metadata) /\ IsSome(Unwrap(metadata).hidden)
    THEN Unwrap(Unwrap(metadata).hidden)
    ELSE FALSE

\* The unwraps of the record construction: val["path"] and the four
\* metadata fields must be there with their types.
FieldsPresent(val, md) ==
    /\ IsSome(val.path)
    /\ IsSome(md.name)
    /\ IsSome(md.description)
    /\ IsSome(md.category)
    /\ IsSome(md.wasm)

\* Faulty variant: wasm is not copied from the entry.
Example_WasmDefault(technical_name, val, md) ==
    [ technical_name |-> technical_name,
      path           |-> Unwrap(val.path),
      name           |-> Unwrap(md.name),
      description    |-> Unwrap(md.description),
      category       |-> Unwrap(md.category),
      wasm           |-> FALSE ]

Example(technical_name, val, md) ==
    [ technical_name |-> technical_name,
      path           |-> Unwrap(val.path),
      name           |-> Unwrap(md.name),
      description    |-> Unwrap(md.description),
      category       |-> Unwrap(md.category),
      wasm           |-> Unwrap(md.wasm) ]

\* The closure of flat_map on one declaration: a panic, or the Option of an
\* Example that flat_map flattens into the output.
Closure(panic_on_missing, metadatas, val) ==
    IF ~IsSome(val.name)
    THEN [panic |-> Panic("malformed manifest", None), out |-> None]
    ELSE LET technical_name == Unwrap(val.name)
             metadata == get(metadatas, technical_name)
         IN  IF MissingMetadata(panic_on_missing, metadata)
             THEN [panic |-> Panic("Missing metadata for example", Some(technical_name)),
                   out |-> None]
             ELSE IF MissingDocScrape(panic_on_missing, val)
             THEN [panic |-> Panic("is missing doc-scrape-examples", Some(technical_name)),
                   out |-> None]
             ELSE IF IsHidden(metadata)
             THEN [panic |-> NoPanic, out |-> None]
             ELSE IF ~IsSome(metadata)
             THEN [panic |-> NoPanic, out |-> None]
             ELSE IF ~FieldsPresent(val, Unwrap(metadata))
             THEN [panic |-> Panic("malformed manifest", Some(technical_name)), out |-> None]
             ELSE [panic |-> NoPanic,
                   out |-> Some(Example(technical_name, val, Unwrap(metadata)))]

----------------------------------------------------------------------------
(* check: grouping and sorting *)

\* impl Ord for Example: (category, name) compared as a tuple.
cmp(a, b) ==
    IF StrCmp(a.category, b.category) # "Equal"
    THEN StrCmp(a.category, b.category)
    ELSE StrCmp(a.name, b.name)

\* slice::sort is stable: an element goes after the elements that are not
\* greater than it.
RECURSIVE Insert(_, _)
Insert(sorted, x) ==
    IF sorted = << >> THEN << x >>
    ELSE IF cmp(x, Head(sorted)) = "Less" THEN << x >> \o sorted
    ELSE << Head(sorted) >> \o Insert(Tail(sorted), x)

\* Faulty variant: the group is left in insertion order.
sort_Unsorted(s) == s

RECURSIVE sort(_)
sort(s) ==
    IF s = << >> THEN << >>
    ELSE Insert(sort(SubSeq(s, 1, Len(s) - 1)), s[Len(s)])

\* Faulty variant: insert replaces the group instead of pushing to it.
push_Insert(v, ex) ==
    [k \in DOMAIN v \cup {ex.category} |->
        IF k = ex.category THEN << ex >> ELSE v[k]]

\* v.entry_ref(ex.category.as_str()).or_default().push(ex)
push(v, ex) ==
    IF ex.category \in DOMAIN v
    THEN [v EXCEPT ![ex.category] = Append(@, ex)]
    ELSE [k \in DOMAIN v \cup {ex.category} |->
            IF k = ex.category THEN << ex >> ELSE v[k]]

\* examples.into_iter().fold(HashMap::new(), ...)
RECURSIVE fold(_, _)
fold(v, exs) ==
    IF exs = << >> THEN v ELSE fold(push(v, Head(exs)), Tail(exs))

EmptyMap == [k \in {} |-> << >>]

\* Faulty variant: unwrap_or_default on the lookup.
cloned_OrDefault(categories, key) ==
    IF key \in DOMAIN categories THEN Some(categories[key]) ELSE Some("")

\* categories.get(&key).cloned()
cloned(categories, key) ==
    IF key \in DOMAIN categories THEN Some(categories[key]) ELSE None

\* struct Category
Category(description, exs) == [description |-> description, examples |-> exs]

\* Faulty variant: the catalog also gets the keys of the category table.
Aggregate_AllCategories(exs, categories) ==
    LET groups == fold(EmptyMap, exs)
    IN  [key \in DOMAIN groups \cup DOMAIN categories |->
            Category(cloned(categories, key),
                     IF key \in DOMAIN groups THEN sort(groups[key]) ELSE << >>)]

\* The map over the groups, collected into examples_by_category.
Aggregate(exs, categories) ==
    LET groups == fold(EmptyMap, exs)
    IN  [key \in DOMAIN groups |->
            Category(cloned(categories, key), sort(groups[key]))]

----------------------------------------------------------------------------
(* parse_categories *)

CategoryWellFormed(v) == IsSome(v.name) /\ IsSome(v.description)

\* collect() into the HashMap: a later entry replaces an earlier one of the
\* same name.
RECURSIVE collect(_, _)
collect(m, table) ==
    IF table = << >> THEN m
    ELSE LET v == Head(table)
             k == Unwrap(v.name)
         IN  collect([x \in DOMAIN m \cup {k} |->
                        IF x = k THEN Unwrap(v.description) ELSE m[x]],
                     Tail(table))

----------------------------------------------------------------------------
(* State *)

VARIABLES
    what_to_run,          \* the argument of check
    manifest,             \* Cargo.toml: the example array and the metadata table
    pc,                   \* where check is
    panic_on_missing,     \* the argument of parse_examples
    next_val,             \* position of the iterator over manifest["example"]
    examples,             \* the Vec parse_examples collects
    category_table,       \* package.metadata.example_category as read
    categories,           \* the map parse_categories returns
    examples_by_category, \* the catalog
    file,                 \* examples/README.md
    file_before,          \* examples/README.md when check was called
    panic                 \* the panic that ended the run, if any

vars == << what_to_run, manifest, pc, panic_on_missing, next_val, examples,
           category_table, categories, examples_by_category, file, file_before,
           panic >>

Init ==
    /\ what_to_run \in Commands
    /\ manifest \in Manifests
    /\ pc = "check"
    /\ panic_on_missing = FALSE
    /\ next_val = 1
    /\ examples = << >>
    /\ category_table = << >>
    /\ categories = EmptyMap
    /\ examples_by_category = EmptyMap
    /\ file \in {"absent", "old"}
    /\ file_before = file
    /\ panic = NoPanic

\* let examples = parse_examples(what_to_run.contains(Command::CHECK_MISSING));
CallParseExamples ==
    /\ pc = "check"
    /\ panic_on_missing' = contains(what_to_run, "CHECK_MISSING")
    /\ pc' = "parse_examples"
    /\ UNCHANGED << what_to_run, manifest, next_val, examples, category_table,
                    categories, examples_by_category, file, file_before, panic >>

\* One step of the flat_map over the declarations.
NextDeclaration ==
    /\ pc = "parse_examples"
    /\ next_val <= Len(manifest.example)
    /\ LET r == Closure(panic_on_missing, manifest.metadata, manifest.example[next_val])
       IN  IF r.panic # NoPanic
           THEN /\ panic' = r.panic
                /\ pc' = "panicked"
                /\ UNCHANGED << next_val, examples >>
           ELSE /\ examples' = examples \o r.out
                /\ next_val' = next_val + 1
                /\ UNCHANGED << pc, panic >>
    /\ UNCHANGED << what_to_run, manifest, panic_on_missing, category_table,
                    categories, examples_by_category, file, file_before >>

\* Faulty variant: the UPDATE flag is not tested.
ReturnExamples_AlwaysUpdate ==
    /\ pc = "parse_examples"
    /\ next_val > Len(manifest.example)
    /\ pc' = "parse_categories"
    /\ UNCHANGED << what_to_run, manifest, panic_on_missing, next_val, examples,
                    category_table, categories, examples_by_category, file,
                    file_before, panic >>

\* The iterator is exhausted, collect() returns; if what_to_run.contains(UPDATE).
ReturnExamples ==
    /\ pc = "parse_examples"
    /\ next_val > Len(manifest.example)
    /\ pc' = IF contains(what_to_run, "UPDATE") THEN "parse_categories" ELSE "returned"
    /\ UNCHANGED << what_to_run, manifest, panic_on_missing, next_val, examples,
                    category_table, categories, examples_by_category, file,
                    file_before, panic >>

\* let categories = parse_categories();
ParseCategories ==
    /\ pc = "parse_categories"
    /\ \E table \in CategoryTables :
         /\ category_table' = table
         /\ IF \A i \in 1..Len(table) : CategoryWellFormed(table[i])
            THEN /\ categories' = collect(EmptyMap, table)
                 /\ pc' = "aggregate"
                 /\ UNCHANGED panic
            ELSE /\ panic' = Panic("malformed category table", None)
                 /\ pc' = "panicked"
                 /\ UNCHANGED categories
    /\ UNCHANGED << what_to_run, manifest, panic_on_missing, next_val, examples,
                    examples_by_category, file, file_before >>

\* let examples_by_category = examples.into_iter().fold(..).into_iter().map(..).collect();
AggregateExamples ==
    /\ pc = "aggregate"
    /\ examples_by_category' = Aggregate(examples, categories)
    /\ pc' = "tera_new"
    /\ UNCHANGED << what_to_run, manifest, panic_on_missing, next_val, examples,
                    category_table, categories, file, file_before, panic >>

\* Tera::new("docs-template/*.md.tpl").expect("error parsing template")
TeraNew ==
    /\ pc = "tera_new"
    /\ \E ok \in BOOLEAN :
         IF ok
         THEN pc' = "file_create" /\ UNCHANGED panic
         ELSE pc' = "panicked" /\ panic' = Panic("error parsing template", None)
    /\ UNCHANGED << what_to_run, manifest, panic_on_missing, next_val, examples,
                    category_table, categories, examples_by_category, file,
                    file_before >>

\* File::create("examples/README.md").expect("error creating file"): the
\* argument of render_to, evaluated before the call; creates or truncates.
FileCreate ==
    /\ pc = "file_create"
    /\ \E ok \in BOOLEAN :
         IF ok
         THEN pc' = "render_to" /\ file' = "empty" /\ UNCHANGED panic
         ELSE /\ pc' = "panicked"
              /\ panic' = Panic("error creating file", None)
              /\ UNCHANGED file
    /\ UNCHANGED << what_to_run, manifest, panic_on_missing, next_val, examples,
                    category_table, categories, examples_by_category, file_before >>

\* .render_to("EXAMPLE_README.md.tpl", &context, file).expect("error rendering template")
\* The template may be missing from the set; rendering writes to the file as
\* it goes and may fail after any part of the output.
RenderTo ==
    /\ pc = "render_to"
    /\ \E outcome \in {"rendered", "template not found", "failed, nothing written",
                       "failed, partly written"} :
         IF outcome = "rendered"
         THEN pc' = "returned" /\ file' = "rendered" /\ UNCHANGED panic
         ELSE /\ pc' = "panicked"
              /\ panic' = Panic("error rendering template", None)
              /\ file' = IF outcome = "failed, partly written" THEN "partial" ELSE file
    /\ UNCHANGED << what_to_run, manifest, panic_on_missing, next_val, examples,
                    category_table, categories, examples_by_category, file_before >>

Next ==
    \/ CallParseExamples
    \/ NextDeclaration
    \/ ReturnExamples
    \/ ParseCategories
    \/ AggregateExamples
    \/ TeraNew
    \/ FileCreate
    \/ RenderTo

Spec == Init /\ [][Next]_vars

----------------------------------------------------------------------------
(* What the properties speak about *)

Declared == 1..Len(manifest.example)
Val(i) == manifest.example[i]
HasName(i) == IsSome(Val(i).name)
EntryOf(i) == manifest.metadata[Unwrap(Val(i).name)]
HasEntry(i) == HasName(i) /\ EntryOf(i) # None
NoEntry(i) == HasName(i) /\ EntryOf(i) = None
HiddenEntry(i) == HasEntry(i) /\ Unwrap(EntryOf(i)).hidden = Some(TRUE)
LacksMarker(i) == Val(i).marker = None
CompleteEntry(i) ==
    /\ HasEntry(i)
    /\ Unwrap(EntryOf(i)).name # None
    /\ Unwrap(EntryOf(i)).description # None
    /\ Unwrap(EntryOf(i)).category # None
    /\ Unwrap(EntryOf(i)).wasm # None

\* The iterator went past declaration i without a panic.
Passed(i) == i < next_val
\* parse_examples panicked in the closure call on declaration i.
PanickedAt(i) ==
    /\ pc = "panicked"
    /\ next_val = i
    /\ panic.message \in {"malformed manifest", "Missing metadata for example",
                          "is missing doc-scrape-examples"}
\* The positions of the output that hold a record of declaration i.
RecordsOf(i) ==
    {k \in 1..Len(examples) : Some(examples[k].technical_name) = Val(i).name}

ParseExamplesReturned == pc \notin {"check", "parse_examples"} /\ next_val > Len(manifest.example)
ParseExamplesPanicked == pc = "panicked" /\ next_val <= Len(manifest.example)
Aggregated == pc \in {"tera_new", "file_create", "render_to", "returned"}
                 /\ contains(what_to_run, "UPDATE")

RECURSIVE ExpectedRecords(_)
ExpectedRecords(n) ==
    IF n = 0 THEN << >>
    ELSE ExpectedRecords(n - 1) \o
         ( IF CompleteEntry(n) /\ ~HiddenEntry(n)
           THEN << [ technical_name |-> Unwrap(Val(n).name),
                     path           |-> Unwrap(Val(n).path),
                     name           |-> Unwrap(Unwrap(EntryOf(n)).name),
                     description    |-> Unwrap(Unwrap(EntryOf(n)).description),
                     category       |-> Unwrap(Unwrap(EntryOf(n)).category),
                     wasm           |-> Unwrap(Unwrap(EntryOf(n)).wasm) ] >>
           ELSE << >> )

----------------------------------------------------------------------------
(* Properties *)

\* C1: in non-strict mode (panic_on_missing = FALSE) the output of
\* parse_examples holds, in declaration order, exactly one record for each
\* declaration that has a metadata entry which is not hidden and has all
\* required fields, and none for any other declaration; technical_name and
\* path are the declaration's, name, description, category and wasm are the
\* entry's.  It holds of the records collected after every declaration
\* the iterator has passed, hence of the Vec that is returned.
C1_NonStrictRecords ==
    (pc # "check" /\ ~panic_on_missing) => examples = ExpectedRecords(next_val - 1)

C1_Witness ==
    /\ ~panic_on_missing
    /\ pc = "returned"
    /\ Len(manifest.example) = 2
    /\ NoEntry(1)
    /\ Len(examples) = 1
    /\ examples[1].technical_name = TechnicalName(2)
    /\ examples[1].wasm = TRUE

\* C2: a declaration with no metadata entry gets no record; in non-strict mode
\* parse_examples never panics on it and goes on with the next declaration; in
\* strict mode the iterator never passes it, and the panic raised on it is
\* "Missing metadata for example" with its technical_name.
C2_NoMetadataEntry ==
    \A i \in Declared :
        NoEntry(i) =>
            /\ RecordsOf(i) = {}
            /\ ~panic_on_missing => ~PanickedAt(i)
            /\ panic_on_missing =>
                 /\ ~Passed(i)
                 /\ PanickedAt(i) =>
                      panic = Panic("Missing metadata for example", Val(i).name)

C2_Witness ==
    /\ panic_on_missing
    /\ Len(manifest.example) = 2
    /\ HasEntry(1)
    /\ NoEntry(2)
    /\ PanickedAt(2)
    /\ panic.example = Some(TechnicalName(2))

\* C3 as stated: a declaration whose metadata entry has hidden = true gets no
\* record and no panic is ever raised on it, strict mode or not, marker or not.
C3_HiddenNeverPanics ==
    \A i \in Declared :
        HiddenEntry(i) => RecordsOf(i) = {} /\ ~PanickedAt(i)

\* C3 amended: a declaration whose metadata entry has hidden = true gets no
\* record in either mode; no panic is raised on it, except that in strict mode
\* a hidden declaration without the doc-scrape-examples key is never passed
\* and is answered with the "is missing doc-scrape-examples" panic naming it.
C3_HiddenOmitted ==
    \A i \in Declared :
        HiddenEntry(i) =>
            /\ RecordsOf(i) = {}
            /\ PanickedAt(i) =>
                 /\ panic_on_missing
                 /\ LacksMarker(i)
                 /\ panic = Panic("is missing doc-scrape-examples", Val(i).name)
            /\ (panic_on_missing /\ LacksMarker(i)) => ~Passed(i)

C3_Witness ==
    /\ panic_on_missing
    /\ pc = "returned"
    /\ Len(manifest.example) = 2
    /\ HiddenEntry(1) /\ ~CompleteEntry(1) /\ ~LacksMarker(1)
    /\ Len(examples) = 1

\* C4: in strict mode the iterator never passes a declaration without the
\* doc-scrape-examples key; the panic on a declaration that has a metadata
\* entry and no such key is "is missing doc-scrape-examples" with its
\* technical_name, and it is the first such declaration of the manifest; the
\* key counts by presence, whatever its value; a declaration with neither
\* entry nor key gets the missing-metadata panic; in non-strict mode this panic
\* is never raised.
C4_MissingDocScrape ==
    /\ \A i \in Declared :
         (panic_on_missing /\ HasName(i) /\ LacksMarker(i)) =>
            /\ ~Passed(i)
            /\ (PanickedAt(i) /\ HasEntry(i)) =>
                 panic = Panic("is missing doc-scrape-examples", Val(i).name)
            /\ (PanickedAt(i) /\ NoEntry(i)) =>
                 panic = Panic("Missing metadata for example", Val(i).name)
    /\ panic.message = "is missing doc-scrape-examples" =>
         /\ panic_on_missing
         /\ PanickedAt(next_val)
         /\ HasEntry(next_val) /\ LacksMarker(next_val)
         /\ panic.example = Val(next_val).name
         /\ \A j \in 1..(next_val - 1) : ~(HasEntry(j) /\ LacksMarker(j))

C4_Witness ==
    /\ panic_on_missing
    /\ Len(manifest.example) = 2
    /\ Val(1).marker = Some(FALSE)
    /\ HasEntry(2) /\ LacksMarker(2)
    /\ PanickedAt(2)
    /\ panic = Panic("is missing doc-scrape-examples", Some(TechnicalName(2)))

\* C5: parse_examples is called with panic_on_missing = CHECK_MISSING on every
\* call of check, and check returns only after it has returned; the grouping
\* and the rendering happen only with UPDATE set and after parse_examples has
\* returned; without UPDATE, and after a panic of parse_examples, nothing is
\* aggregated and examples/README.md is what it was when check was called.
C5_Phases ==
    /\ pc # "check" => panic_on_missing = contains(what_to_run, "CHECK_MISSING")
    /\ pc = "returned" => ParseExamplesReturned
    /\ pc \in {"parse_categories", "aggregate", "tera_new", "file_create", "render_to"} =>
         contains(what_to_run, "UPDATE") /\ ParseExamplesReturned
    /\ (file # file_before \/ examples_by_category # EmptyMap) =>
         contains(what_to_run, "UPDATE") /\ ParseExamplesReturned
    /\ ~contains(what_to_run, "UPDATE") =>
         file = file_before /\ examples_by_category = EmptyMap
    /\ ParseExamplesPanicked =>
         file = file_before /\ examples_by_category = EmptyMap

C5_Witness ==
    /\ what_to_run = {"CHECK_MISSING", "UPDATE"}
    /\ ParseExamplesPanicked
    /\ panic.message = "Missing metadata for example"
    /\ Passed(1)
    /\ file = "old"

\* C6: in the catalog, two adjacent examples of a category are in ascending
\* order of name: the name of the first is not greater than the name of the
\* second in the byte order of strings.
C6_SortedByName ==
    Aggregated =>
        \A key \in DOMAIN examples_by_category :
            LET exs == examples_by_category[key].examples
            IN  \A k \in 1..(Len(exs) - 1) :
                    StrCmp(exs[k].name, exs[k + 1].name) \in {"Less", "Equal"}

C6_Witness ==
    /\ Aggregated
    /\ Len(examples) = 2
    /\ examples[1].name = Zeta /\ examples[2].name = Alpha
    /\ basic \in DOMAIN examples_by_category
    /\ Len(examples_by_category[basic].examples) = 2
    /\ examples_by_category[basic].examples[1] = examples[2]
    /\ examples_by_category[basic].examples[2] = examples[1]

Bijections(n) ==
    {p \in [1..n -> 1..n] : \A a, b \in 1..n : p[a] = p[b] => a = b}

\* C7: the catalog of any permutation of the examples has the same category
\* keys and, under every key, the same set of examples as the catalog of the
\* examples.
C7_OrderIndependent ==
    Aggregated =>
        \A p \in Bijections(Len(examples)) :
            LET permuted == Aggregate([k \in 1..Len(examples) |-> examples[p[k]]], categories)
            IN  /\ DOMAIN permuted = DOMAIN examples_by_category
                /\ \A key \in DOMAIN permuted :
                      Range(permuted[key].examples) = Range(examples_by_category[key].examples)

C7_Witness ==
    /\ Aggregated
    /\ Len(examples) = 2
    /\ examples[1].category = examples[2].category
    /\ examples[1].name # examples[2].name

\* The description the category table gives for a key: that of its last
\* entry of that name, None without such an entry.
TableDescription(key) ==
    LET at == {k \in 1..Len(category_table) : category_table[k].name = Some(key)}
    IN  IF at = {} THEN None
        ELSE category_table[CHOOSE k \in at : \A j \in at : j <= k].description

\* C8: the description of every category of the catalog is the one the
\* category table gives for its key, and None when the table has no entry of
\* that key; such a key does not make check panic.
C8_Descriptions ==
    /\ Aggregated =>
         \A key \in DOMAIN examples_by_category :
            examples_by_category[key].description = TableDescription(key)
    /\ (pc = "panicked" /\ ParseExamplesReturned) =>
         panic.message \in {"malformed category table", "error parsing template",
                            "error creating file", "error rendering template"}
    /\ panic.message = "malformed category table" =>
         \E k \in 1..Len(category_table) :
            category_table[k].name = None \/ category_table[k].description = None

C8_Witness ==
    /\ pc = "returned"
    /\ DOMAIN examples_by_category = {basic, extra}
    /\ DOMAIN categories = {basic, tools}
    /\ examples_by_category[extra].description = None
    /\ examples_by_category[basic].description = Some("Basic examples.")

\* C9 as stated: after a panic of the template set, of the template lookup or
\* of the rendering, examples/README.md is what it was when check was called.
C9_NoPartialWrite ==
    (pc = "panicked" /\ panic.message \in {"error parsing template",
                                            "error rendering template"})
        => file = file_before

\* C10: the catalog is a partition of the examples parse_examples returned:
\* every example is exactly once in the catalog, under its own category;
\* every example of the catalog is one of them; no category of the catalog is
\* empty; a category of the table without an example is not a key.
C10_Partition ==
    Aggregated =>
        /\ \A i \in 1..Len(examples) :
              /\ examples[i].category \in DOMAIN examples_by_category
              /\ \A key \in DOMAIN examples_by_category :
                    Cardinality({k \in 1..Len(examples_by_category[key].examples) :
                                   examples_by_category[key].examples[k] = examples[i]})
                      = IF key = examples[i].category THEN 1 ELSE 0
        /\ \A key \in DOMAIN examples_by_category :
              /\ examples_by_category[key].examples # << >>
              /\ \A k \in 1..Len(examples_by_category[key].examples) :
                    /\ examples_by_category[key].examples[k] \in Range(examples)
                    /\ examples_by_category[key].examples[k].category = key
        /\ \A key \in DOMAIN categories :
              (\A i \in 1..Len(examples) : examples[i].category # key)
                 => key \notin DOMAIN examples_by_category

C10_Witness ==
    /\ pc = "returned"
    /\ Len(examples) = 2
    /\ DOMAIN categories = {basic, tools}
    /\ DOMAIN examples_by_category = {basic, extra}

====
